---- MODULE Spec2Model ----
(***************************************************************************)
(* UMA2 client orchestrators of the openid crate (src/uma2/uma2.rs and     *)
(* src/uma2/keycloak/grant_permission_to_user.rs).                         *)
(*                                                                         *)
(* Every orchestrator is an async fn on Client<P, C>: it reads the         *)
(* provider (the endpoint registry), builds one request, hands it to the   *)
(* HTTP client, suspends at `.send().await`, and on resumption classifies  *)
(* the JSON body.  A call is modelled by two steps: the part before the    *)
(* await (one action per orchestrator) and the part after it (Complete /   *)
(* TransportFails).                                                        *)
(*                                                                         *)
(* Text is a sequence of pieces: a piece is either a run of characters     *)
(* that every encoder leaves alone (ASCII letters, digits, "-", "_", ".")  *)
(* or one single other character.  Encoders map pieces to strings.         *)
(***************************************************************************)
EXTENDS Integers, Sequences, FiniteSets, TLC

VARIABLES provider, calls, sent

vars == <<provider, calls, sent>>

(* ---------------------------------------------------------------------- *)
(* Bounds of the model                                                     *)
(* ---------------------------------------------------------------------- *)
MaxPerms == 2

(* ---------------------------------------------------------------------- *)
(* Option<T>                                                               *)
(* ---------------------------------------------------------------------- *)
None == <<>>

Some(x) == <<x>>

is_some(o) == Len(o) = 1

is_none(o) == Len(o) = 0

unwrap(o) == o[1]

Opt(S) == {None} \cup {Some(x) : x \in S}

RECURSIVE Concat(_)
Concat(ss) == IF ss = <<>> THEN "" ELSE ss[1] \o Concat(Tail(ss))

(* ---------------------------------------------------------------------- *)
(* Conversions used while building requests                                *)
(* ---------------------------------------------------------------------- *)
Digit(d) ==
    CASE d = 0 -> "0" [] d = 1 -> "1" [] d = 2 -> "2" [] d = 3 -> "3"
      [] d = 4 -> "4" [] d = 5 -> "5" [] d = 6 -> "6" [] d = 7 -> "7"
      [] d = 8 -> "8" [] d = 9 -> "9"

RECURSIVE FormatU32(_)
FormatU32(n) ==
    IF n < 10 THEN Digit(n) ELSE FormatU32(n \div 10) \o Digit(n % 10)

FormatBool(b) == IF b THEN "true" ELSE "false"

BoolLiteral(b) == IF b THEN "true" ELSE "false"

(* form_urlencoded::byte_serialize on one piece *)
FormEncodePiece(p) ==
    CASE p = " " -> "+"
      [] p = ":" -> "%3A"
      [] p = "/" -> "%2F"
      [] p = "#" -> "%23"
      [] p = "&" -> "%26"
      [] p = "=" -> "%3D"
      [] p = "," -> "%2C"
      [] p = "%" -> "%25"
      [] OTHER -> p

FormEncode(text) == Concat([i \in 1..Len(text) |-> FormEncodePiece(text[i])])

(* url::PathSegmentsMut::extend on one piece of a new segment *)
SegmentEncodePiece(p) ==
    CASE p = " " -> "%20"
      [] p = "/" -> "%2F"
      [] p = "#" -> "%23"
      [] p = "%" -> "%25"
      [] OTHER -> p

SegmentEncode(text) == Concat([i \in 1..Len(text) |-> SegmentEncodePiece(text[i])])

(* The text of a literal that holds no character an encoder rewrites *)
Lit(s) == <<s>>

GrantTypeUmaTicket ==
    <<"urn", ":", "ietf", ":", "params", ":", "oauth", ":", "grant-type", ":", "uma-ticket">>

(* ---------------------------------------------------------------------- *)
(* form_urlencoded::Serializer and Url::query_pairs_mut                    *)
(* ---------------------------------------------------------------------- *)
Pair(k, v) == [key |-> k, value |-> v]

append_pair(target, name, value) ==
    Append(target, Pair(FormEncode(name), FormEncode(value)))

append_if(cond, target, name, value) ==
    IF cond THEN append_pair(target, name, value) ELSE target

(* variant: the values are joined into one pair *)
RECURSIVE JoinEncoded(_)
JoinEncoded(values) ==
    IF values = <<>> THEN ""
    ELSE FormEncode(values[1])
         \o (IF Len(values) > 1 THEN "%2C" \o JoinEncoded(Tail(values)) ELSE "")

append_joined(target, name, values) ==
    Append(target, Pair(FormEncode(name), JoinEncoded(values)))

RECURSIVE append_each(_, _, _)
append_each(target, name, values) ==
    IF values = <<>> THEN target
    ELSE append_each(append_pair(target, name, values[1]), name, Tail(values))

RECURSIVE finish(_)
finish(pairs) ==
    IF pairs = <<>> THEN ""
    ELSE pairs[1].key \o "=" \o pairs[1].value
         \o (IF Len(pairs) > 1 THEN "&" \o finish(Tail(pairs)) ELSE "")

(* ---------------------------------------------------------------------- *)
(* Url                                                                     *)
(* ---------------------------------------------------------------------- *)
Url(base, opaque) ==
    [base |-> base, cannot_be_a_base |-> opaque, segments |-> <<>>, query |-> <<>>]

(* variant: the failure of path_segments_mut is not looked at *)
path_segments_always_ok(url) == TRUE

path_segments_ok(url) == ~url.cannot_be_a_base

extend(url, segment) ==
    [url EXCEPT !.segments = Append(@, SegmentEncode(segment))]

TokenUrl == Url("https://auth/token", FALSE)

PermissionUrls == {Url("https://auth/perm", FALSE), Url("urn:perm", TRUE)}

PolicyUrls ==
    {Url("https://auth/policy", FALSE),
     [Url("https://auth/policy", FALSE) EXCEPT !.query = <<[key |-> "realm", value |-> "m"]>>],
     Url("urn:policy", TRUE)}

Providers ==
    [discovered : BOOLEAN,
     permission_uri : Opt(PermissionUrls),
     uma_policy_uri : Opt(PolicyUrls),
     token_uri : {TokenUrl}]

uma2_discovered == provider.discovered

permission_uri == provider.permission_uri

uma_policy_uri == provider.uma_policy_uri

token_uri == provider.token_uri

(* ---------------------------------------------------------------------- *)
(* Requests handed to the HTTP client                                      *)
(* ---------------------------------------------------------------------- *)
Header(n, v) == [name |-> n, value |-> v]

NoBody == [kind |-> "none", form |-> <<>>, json |-> <<>>]

FormBody(pairs) == [kind |-> "form", form |-> pairs, json |-> <<>>]

JsonBody(members) == [kind |-> "json", form |-> <<>>, json |-> members]

Request(method, url, headers, body) ==
    [method |-> method, url |-> url, headers |-> headers, body |-> body]

BearerHeader(token) == "Bearer " \o token

BasicHeader(token) == "Basic " \o token

(* ---------------------------------------------------------------------- *)
(* Results and errors (ClientError, Uma2Error)                             *)
(* ---------------------------------------------------------------------- *)
Ok(kind, val) == [tag |-> "Ok", kind |-> kind, val |-> val]

Err(kind, val) == [tag |-> "Err", kind |-> kind, val |-> val]

Uma2(e) == Err(e, <<>>)

Unit == Ok("unit", <<>>)

(* ---------------------------------------------------------------------- *)
(* Call records                                                            *)
(* ---------------------------------------------------------------------- *)
Idle == [pc |-> "idle", op |-> "", args |-> None, req |-> None,
         resp |-> None, result |-> None]

(* the call returned before reaching the HTTP client *)
Rejected(op, args, e) ==
    [pc |-> "done", op |-> op, args |-> Some(args), req |-> None,
     resp |-> None, result |-> Some(Uma2(e))]

(* the call is suspended at `.send().await` with its request in flight *)
Awaiting(op, args, req) ==
    [pc |-> "awaiting", op |-> op, args |-> Some(args), req |-> Some(req),
     resp |-> None, result |-> None]

(* the call returned after the await; its arguments and request were moved
   into the request builder and are gone *)
Returned(op, resp, result) ==
    [pc |-> "done", op |-> op, args |-> None, req |-> None,
     resp |-> Some(resp), result |-> Some(result)]

(* variant: the request under construction is one slot shared by the calls *)
Begin_shared(c, next, n) ==
    /\ calls' = [d \in DOMAIN calls |->
                    IF d = c THEN next
                    ELSE IF calls[d].pc = "awaiting" /\ is_some(next.req)
                    THEN [calls[d] EXCEPT !.req = next.req]
                    ELSE calls[d]]
    /\ sent' = [sent EXCEPT ![c] = @ + n]
    /\ UNCHANGED provider

Begin(c, next, n) ==
    /\ calls' = [calls EXCEPT ![c] = next]
    /\ sent' = [sent EXCEPT ![c] = @ + n]
    /\ UNCHANGED provider

(* ---------------------------------------------------------------------- *)
(* Inputs                                                                  *)
(* ---------------------------------------------------------------------- *)
Tokens == {"pat", "tok2"}

AuthMethods == {"Bearer", "Basic"}

Tickets == Opt({Lit("tkt")})

ClaimTokens == Opt({<<"eyJ", "=">>})

ClaimTokenFormats == Opt({"OAuthJwt", "OidcIdToken"})

Rpts == Opt({Lit("rpt0")})

PermissionValues == {<<"res", "#", "read">>, <<"a", "&", "b">>}

SeqsUpTo(S, n) == UNION {[1..k -> S] : k \in 0..n}

Permissions == Opt(SeqsUpTo(PermissionValues, MaxPerms))

Audiences == Opt({<<"my", " ", "rs">>})

OptBools == Opt(BOOLEAN)

Limits == Opt({10})

(* every combination of the form fields under one credential, and every
   credential under every combination of ticket, permission and audience *)
RptArgs ==
    [token : {"pat"}, auth_method : {"Bearer"}, ticket : Tickets,
     claim_token : ClaimTokens, claim_token_format : ClaimTokenFormats,
     rpt : Rpts, permission : Permissions, audience : Audiences,
     response_include_resource_name : OptBools,
     response_permissions_limit : Limits, submit_request : OptBools]
    \cup
    [token : Tokens, auth_method : AuthMethods, ticket : Tickets,
     claim_token : {None}, claim_token_format : {None},
     rpt : {None}, permission : Permissions, audience : Audiences,
     response_include_resource_name : {None},
     response_permissions_limit : {None}, submit_request : {None}]

(* a small set of arguments of the RPT exchange *)
RptArgsFew ==
    [token : Tokens, auth_method : {"Bearer"}, ticket : {None},
     claim_token : {None}, claim_token_format : {None}, rpt : {None},
     permission : {None, Some(<<>>), Some(<<<<"res", "#", "read">>>>)},
     audience : Audiences, response_include_resource_name : {None},
     response_permissions_limit : {None}, submit_request : {None}]

(* ---------------------------------------------------------------------- *)
(* obtain_requesting_party_token, up to `.send().await`                    *)
(* ---------------------------------------------------------------------- *)
claim_token_format_to_string(f) ==
    IF f = "OAuthJwt"
    THEN <<"urn", ":", "ietf", ":", "params", ":", "oauth", ":", "token-type", ":", "jwt">>
    ELSE <<"https", ":", "/", "/", "openid.net", "/", "specs", "/",
           "openid-connect-core-1_0.html", "#", "IDToken">>

(* variant: the emptiness of the permission sequence is not looked at *)
audience_required_any(a) ==
    /\ is_some(a.permission)
    /\ is_none(a.audience)

audience_required(a) ==
    /\ is_some(a.permission)
    /\ unwrap(a.permission) = <<>>
    /\ is_none(a.audience)

rpt_body(a) ==
    LET b0 == append_pair(<<>>, Lit("grant_type"), GrantTypeUmaTicket)
        b1 == append_if(is_some(a.ticket), b0, Lit("ticket"), unwrap(a.ticket))
        b2 == append_if(is_some(a.claim_token), b1, Lit("claim_token"),
                        unwrap(a.claim_token))
        b3 == append_if(is_some(a.claim_token_format), b2, Lit("claim_token_format"),
                        claim_token_format_to_string(unwrap(a.claim_token_format)))
        b4 == append_if(is_some(a.rpt), b3, Lit("rpt"), unwrap(a.rpt))
        b5 == IF is_some(a.permission)
              THEN append_each(b4, Lit("permission"), unwrap(a.permission))
              ELSE b4
        b6 == append_if(is_some(a.audience), b5, Lit("audience"), unwrap(a.audience))
        b7 == append_if(is_some(a.response_include_resource_name), b6,
                        Lit("response_include_resource_name"),
                        Lit(BoolLiteral(unwrap(a.response_include_resource_name))))
        b8 == append_if(is_some(a.response_permissions_limit), b7,
                        Lit("response_permissions_limit"),
                        Lit(FormatU32(unwrap(a.response_permissions_limit))))
        b9 == append_if(is_some(a.submit_request), b8, Lit("submit_request"),
                        Lit(FormatBool(unwrap(a.submit_request))))
    IN  b9

(* variant: the selected method is not looked at *)
rpt_authorization_always_bearer(a) == BearerHeader(a.token)

rpt_authorization(a) ==
    IF a.auth_method = "Basic" THEN BasicHeader(a.token) ELSE BearerHeader(a.token)

rpt_request(a) ==
    Request("POST", token_uri,
            <<Header("content-type", "application/x-www-form-urlencoded"),
              Header("authorization", rpt_authorization(a))>>,
            FormBody(rpt_body(a)))

(* variant: the audience check is made before the discovery check *)
obtain_requesting_party_token_audience_first(c) ==
    /\ calls[c].pc = "idle"
    /\ \E a \in RptArgs :
        LET op == "obtain_requesting_party_token" IN
        IF audience_required(a)
        THEN Begin(c, Rejected(op, a, "AudienceFieldRequired"), 0)
        ELSE IF ~uma2_discovered
        THEN Begin(c, Rejected(op, a, "NoUma2Discovered"), 0)
        ELSE Begin(c, Awaiting(op, a, rpt_request(a)), 1)

obtain_requesting_party_token_call(c, a) ==
    LET op == "obtain_requesting_party_token" IN
    IF ~uma2_discovered
    THEN Begin(c, Rejected(op, a, "NoUma2Discovered"), 0)
    ELSE IF audience_required(a)
    THEN Begin(c, Rejected(op, a, "AudienceFieldRequired"), 0)
    ELSE Begin(c, Awaiting(op, a, rpt_request(a)), 1)

obtain_requesting_party_token(c) ==
    /\ calls[c].pc = "idle"
    /\ \E a \in RptArgs : obtain_requesting_party_token_call(c, a)

(* the same call with arguments from RptArgsFew *)
obtain_requesting_party_token_few(c) ==
    /\ calls[c].pc = "idle"
    /\ \E a \in RptArgsFew : obtain_requesting_party_token_call(c, a)

(* ---------------------------------------------------------------------- *)
(* JSON request bodies: an object is its ordered sequence of members       *)
(* ---------------------------------------------------------------------- *)
Member(k, kind, val) == [key |-> k, kind |-> kind, val |-> val]

JString(k, text) == Member(k, "string", <<text>>)

JArray(k, texts) == Member(k, "array", texts)

JBool(k, b) == Member(k, "bool", <<Lit(BoolLiteral(b))>>)

JNull(k) == Member(k, "null", <<>>)

(* serde's derived Serialize on an Option<String> field with no
   skip_serializing_if attribute: None is written as null *)
serialize_option(members, k, o) ==
    Append(members, IF is_some(o) THEN JString(k, unwrap(o)) ELSE JNull(k))

(* a field that is left out of the object when it is None *)
skip_if_none(members, k, kind, o) ==
    IF is_some(o)
    THEN Append(members, Member(k, kind, IF kind = "array" THEN unwrap(o) ELSE o))
    ELSE members

Keys(members) == {members[i].key : i \in 1..Len(members)}

NullKeys(members) == {members[i].key : i \in {j \in 1..Len(members) : members[j].kind = "null"}}

JsonHeaders(token) ==
    <<Header("content-type", "application/json"),
      Header("authorization", BearerHeader(token))>>

(* ---------------------------------------------------------------------- *)
(* More inputs                                                             *)
(* ---------------------------------------------------------------------- *)
Ids == {Lit("r1"), <<"a", "/", "b">>}

Names == {<<"my", " ", "perm">>}

Scopes == {<<Lit("read")>>}

OptLists == Opt({<<Lit("x")>>})

OptNames == Opt({Lit("alice")})

Logics == Opt({"Negative"})

DecisionStrategies == Opt({"Affirmative"})

ClaimSets == Opt({Lit("claims")})

Numbers == {0, 5, 10}

TicketArgs ==
    [pat_token : Tokens, resource_id : Ids, resource_scopes : Opt(Scopes),
     claims : ClaimSets]

AssociateArgs ==
    [token : Tokens, resource_id : Ids, name : Names, description : Names,
     scopes : Scopes, roles : OptLists, groups : OptLists, clients : OptLists,
     owner : OptNames, logic : Logics, decision_strategy : DecisionStrategies]

UpdateArgs ==
    [id : Ids, token : Tokens, name : Names, description : Names,
     scopes : Scopes, roles : OptLists, groups : OptLists, clients : OptLists,
     owner : OptNames, logic : Logics, decision_strategy : DecisionStrategies]

DeleteArgs == [id : Ids, token : Tokens]

SearchArgs ==
    [token : Tokens, resource : Opt({Lit("r1")}), name : Opt(Names),
     scope : Opt({Lit("read")}), offset : Opt(Numbers), count : Opt(Numbers)]

GrantArgs ==
    [token : Tokens, resource_id : Ids, requester : {Lit("bob")},
     scope_name : Opt({Lit("read")})]

(* Small argument sets for the specifications that interleave calls or
   carry fairness *)
TicketArgsFew ==
    [pat_token : Tokens, resource_id : {Lit("r1")}, resource_scopes : Opt(Scopes),
     claims : {None}]

AssociateArgsFew ==
    [token : Tokens, resource_id : Ids, name : Names, description : Names,
     scopes : Scopes, roles : {None}, groups : {None}, clients : {None},
     owner : {None}, logic : {None}, decision_strategy : {None}]

UpdateArgsFew ==
    [id : Ids, token : Tokens, name : Names, description : Names,
     scopes : Scopes, roles : {None}, groups : {None}, clients : {None},
     owner : {None}, logic : {None}, decision_strategy : {None}]

DeleteArgsFew == DeleteArgs

SearchArgsFew ==
    [token : Tokens, resource : {None}, name : {None}, scope : {None},
     offset : Opt({10}), count : {None}]

GrantArgsFew ==
    [token : Tokens, resource_id : {Lit("r1")}, requester : {Lit("bob")},
     scope_name : Opt({Lit("read")})]

(* ---------------------------------------------------------------------- *)
(* create_uma2_permission_ticket, up to `.send().await`                    *)
(* ---------------------------------------------------------------------- *)
Uma2PermissionTicket(a) ==
    LET m0 == <<JString("resourceId", a.resource_id)>>
        m1 == skip_if_none(m0, "resourceScopes", "array", a.resource_scopes)
        m2 == skip_if_none(m1, "claims", "object", a.claims)
    IN  m2

ticket_request(a) ==
    Request("POST", unwrap(permission_uri), JsonHeaders(a.pat_token),
            JsonBody(Uma2PermissionTicket(a)))

create_uma2_permission_ticket_call(c, a) ==
    LET op == "create_uma2_permission_ticket" IN
    IF ~uma2_discovered
    THEN Begin(c, Rejected(op, a, "NoUma2Discovered"), 0)
    ELSE IF is_none(permission_uri)
    THEN Begin(c, Rejected(op, a, "NoPermissionsEndpoint"), 0)
    ELSE Begin(c, Awaiting(op, a, ticket_request(a)), 1)

create_uma2_permission_ticket(c) ==
    /\ calls[c].pc = "idle"
    /\ \E a \in TicketArgs : create_uma2_permission_ticket_call(c, a)

(* the same call with arguments from TicketArgsFew *)
create_uma2_permission_ticket_few(c) ==
    /\ calls[c].pc = "idle"
    /\ \E a \in TicketArgsFew : create_uma2_permission_ticket_call(c, a)

(* ---------------------------------------------------------------------- *)
(* associate_uma2_resource_with_a_permission and                           *)
(* update_uma2_resource_permission, up to `.send().await`                  *)
(* ---------------------------------------------------------------------- *)
Uma2PermissionAssociation(id, a, permission_type) ==
    LET m0 == skip_if_none(<<>>, "id", "string", id)
        m1 == m0 \o <<JString("name", a.name), JString("description", a.description),
                      JArray("scopes", a.scopes)>>
        m2 == skip_if_none(m1, "roles", "array", a.roles)
        m3 == skip_if_none(m2, "groups", "array", a.groups)
        m4 == skip_if_none(m3, "clients", "array", a.clients)
        m5 == skip_if_none(m4, "owner", "string", a.owner)
        m6 == skip_if_none(m5, "type", "string", permission_type)
        m7 == skip_if_none(m6, "logic", "string",
                           IF is_some(a.logic) THEN Some(Lit(unwrap(a.logic))) ELSE None)
        m8 == skip_if_none(m7, "decisionStrategy", "string",
                           IF is_some(a.decision_strategy)
                           THEN Some(Lit(unwrap(a.decision_strategy))) ELSE None)
    IN  m8

associate_request(a) ==
    Request("POST", extend(unwrap(uma_policy_uri), a.resource_id),
            JsonHeaders(a.token),
            JsonBody(Uma2PermissionAssociation(None, a, None)))

associate_uma2_resource_with_a_permission_call(c, a) ==
    LET op == "associate_uma2_resource_with_a_permission" IN
    IF ~uma2_discovered
    THEN Begin(c, Rejected(op, a, "NoUma2Discovered"), 0)
    ELSE IF is_none(uma_policy_uri)
    THEN Begin(c, Rejected(op, a, "NoPolicyAssociationEndpoint"), 0)
    ELSE IF ~path_segments_ok(unwrap(uma_policy_uri))
    THEN Begin(c, Rejected(op, a, "PolicyAssociationEndpointMalformed"), 0)
    ELSE Begin(c, Awaiting(op, a, associate_request(a)), 1)

associate_uma2_resource_with_a_permission(c) ==
    /\ calls[c].pc = "idle"
    /\ \E a \in AssociateArgs : associate_uma2_resource_with_a_permission_call(c, a)

(* the same call with arguments from AssociateArgsFew *)
associate_uma2_resource_with_a_permission_few(c) ==
    /\ calls[c].pc = "idle"
    /\ \E a \in AssociateArgsFew : associate_uma2_resource_with_a_permission_call(c, a)

(* variant: the verb of associate is used *)
update_request_post(a) ==
    Request("POST", extend(unwrap(uma_policy_uri), a.id), JsonHeaders(a.token),
            JsonBody(Uma2PermissionAssociation(Some(a.id), a, Some(Lit("uma")))))

update_request(a) ==
    Request("PUT", extend(unwrap(uma_policy_uri), a.id), JsonHeaders(a.token),
            JsonBody(Uma2PermissionAssociation(Some(a.id), a, Some(Lit("uma")))))

update_uma2_resource_permission_call(c, a) ==
    LET op == "update_uma2_resource_permission" IN
    IF ~uma2_discovered
    THEN Begin(c, Rejected(op, a, "NoUma2Discovered"), 0)
    ELSE IF is_none(uma_policy_uri)
    THEN Begin(c, Rejected(op, a, "NoPolicyAssociationEndpoint"), 0)
    ELSE IF ~path_segments_ok(unwrap(uma_policy_uri))
    THEN Begin(c, Rejected(op, a, "PolicyAssociationEndpointMalformed"), 0)
    ELSE Begin(c, Awaiting(op, a, update_request(a)), 1)

update_uma2_resource_permission(c) ==
    /\ calls[c].pc = "idle"
    /\ \E a \in UpdateArgs : update_uma2_resource_permission_call(c, a)

(* the same call with arguments from UpdateArgsFew *)
update_uma2_resource_permission_few(c) ==
    /\ calls[c].pc = "idle"
    /\ \E a \in UpdateArgsFew : update_uma2_resource_permission_call(c, a)

(* ---------------------------------------------------------------------- *)
(* delete_uma2_resource_permission, up to `.send().await`                  *)
(* ---------------------------------------------------------------------- *)
delete_request(a) ==
    Request("DELETE", extend(unwrap(uma_policy_uri), a.id), JsonHeaders(a.token),
            NoBody)

delete_uma2_resource_permission_call(c, a) ==
    LET op == "delete_uma2_resource_permission" IN
    IF ~uma2_discovered
    THEN Begin(c, Rejected(op, a, "NoUma2Discovered"), 0)
    ELSE IF is_none(uma_policy_uri)
    THEN Begin(c, Rejected(op, a, "NoPolicyAssociationEndpoint"), 0)
    ELSE IF ~path_segments_ok(unwrap(uma_policy_uri))
    THEN Begin(c, Rejected(op, a, "PolicyAssociationEndpointMalformed"), 0)
    ELSE Begin(c, Awaiting(op, a, delete_request(a)), 1)

delete_uma2_resource_permission(c) ==
    /\ calls[c].pc = "idle"
    /\ \E a \in DeleteArgs : delete_uma2_resource_permission_call(c, a)

(* the same call with arguments from DeleteArgsFew *)
delete_uma2_resource_permission_few(c) ==
    /\ calls[c].pc = "idle"
    /\ \E a \in DeleteArgsFew : delete_uma2_resource_permission_call(c, a)

(* ---------------------------------------------------------------------- *)
(* search_for_uma2_resource_permission, up to `.send().await`              *)
(* ---------------------------------------------------------------------- *)
(* variant: the pagination pairs carry the caller's parameter names *)
search_query_caller_names(query, a) ==
    LET q1 == append_if(is_some(a.resource), query, Lit("resource"), unwrap(a.resource))
        q2 == append_if(is_some(a.name), q1, Lit("name"), unwrap(a.name))
        q3 == append_if(is_some(a.scope), q2, Lit("scope"), unwrap(a.scope))
        q4 == append_if(is_some(a.offset), q3, Lit("offset"),
                        Lit(FormatU32(unwrap(a.offset))))
        q5 == append_if(is_some(a.count), q4, Lit("count"),
                        Lit(FormatU32(unwrap(a.count))))
    IN  q5

search_query(query, a) ==
    LET q1 == append_if(is_some(a.resource), query, Lit("resource"), unwrap(a.resource))
        q2 == append_if(is_some(a.name), q1, Lit("name"), unwrap(a.name))
        q3 == append_if(is_some(a.scope), q2, Lit("scope"), unwrap(a.scope))
        q4 == append_if(is_some(a.offset), q3, Lit("first"),
                        Lit(FormatU32(unwrap(a.offset))))
        q5 == append_if(is_some(a.count), q4, Lit("max"),
                        Lit(FormatU32(unwrap(a.count))))
    IN  q5

search_url(url, a) == [url EXCEPT !.query = search_query(@, a)]

search_request(a) ==
    Request("GET", search_url(unwrap(uma_policy_uri), a), JsonHeaders(a.token),
            NoBody)

(* variant: the error of the other endpoint is returned *)
search_for_uma2_resource_permission_wrong_error(c) ==
    /\ calls[c].pc = "idle"
    /\ \E a \in SearchArgs :
        LET op == "search_for_uma2_resource_permission" IN
        IF ~uma2_discovered
        THEN Begin(c, Rejected(op, a, "NoUma2Discovered"), 0)
        ELSE IF is_none(uma_policy_uri)
        THEN Begin(c, Rejected(op, a, "NoPermissionsEndpoint"), 0)
        ELSE Begin(c, Awaiting(op, a, search_request(a)), 1)

search_for_uma2_resource_permission_call(c, a) ==
    LET op == "search_for_uma2_resource_permission" IN
    IF ~uma2_discovered
    THEN Begin(c, Rejected(op, a, "NoUma2Discovered"), 0)
    ELSE IF is_none(uma_policy_uri)
    THEN Begin(c, Rejected(op, a, "NoPolicyAssociationEndpoint"), 0)
    ELSE Begin(c, Awaiting(op, a, search_request(a)), 1)

search_for_uma2_resource_permission(c) ==
    /\ calls[c].pc = "idle"
    /\ \E a \in SearchArgs : search_for_uma2_resource_permission_call(c, a)

(* the same call with arguments from SearchArgsFew *)
search_for_uma2_resource_permission_few(c) ==
    /\ calls[c].pc = "idle"
    /\ \E a \in SearchArgsFew : search_for_uma2_resource_permission_call(c, a)

(* ---------------------------------------------------------------------- *)
(* grant_permission_to_user, up to `.send().await`                         *)
(* ---------------------------------------------------------------------- *)
Uma2GrantPermissionToUserRequest(a) ==
    LET m0 == <<JString("resource", a.resource_id),
                JString("requester", a.requester),
                JBool("granted", TRUE)>>
    IN  serialize_option(m0, "scopeName", a.scope_name)

grant_request(a) ==
    Request("POST", extend(unwrap(permission_uri), Lit("ticket")),
            Append(JsonHeaders(a.token), Header("accept", "application/json")),
            JsonBody(Uma2GrantPermissionToUserRequest(a)))

grant_permission_to_user_call(c, a) ==
    LET op == "grant_permission_to_user" IN
    IF ~uma2_discovered
    THEN Begin(c, Rejected(op, a, "NoUma2Discovered"), 0)
    ELSE IF is_none(permission_uri)
    THEN Begin(c, Rejected(op, a, "NoPermissionsEndpoint"), 0)
    ELSE IF ~path_segments_ok(unwrap(permission_uri))
    THEN Begin(c, Rejected(op, a, "PermissionEndpointMalformed"), 0)
    ELSE Begin(c, Awaiting(op, a, grant_request(a)), 1)

grant_permission_to_user(c) ==
    /\ calls[c].pc = "idle"
    /\ \E a \in GrantArgs : grant_permission_to_user_call(c, a)

(* the same call with arguments from GrantArgsFew *)
grant_permission_to_user_few(c) ==
    /\ calls[c].pc = "idle"
    /\ \E a \in GrantArgsFew : grant_permission_to_user_call(c, a)

(* ---------------------------------------------------------------------- *)
(* What the transport hands back                                           *)
(* ---------------------------------------------------------------------- *)
JsonObject(members) == [kind |-> "object", members |-> members, items |-> <<>>]

JsonArray(items) == [kind |-> "array", members |-> <<>>, items |-> items]

Statuses == {200, 400}

InvalidGrantBody ==
    JsonObject(<<JString("error", Lit("invalid_grant")),
                 JString("error_description", Lit("x"))>>)

ErrorBodies ==
    {InvalidGrantBody,
     JsonObject(<<JString("error", Lit("access_denied"))>>),
     JsonObject(<<JString("access_token", Lit("rpt1")),
                  JString("error", Lit("invalid_grant")),
                  JNull("error_description")>>)}

BearerBody ==
    JsonObject(<<JString("access_token", Lit("rpt1")),
                 JString("token_type", Lit("Bearer"))>>)

AssociationsBody ==
    JsonArray(<< <<JString("description", Lit("d")), JString("id", Lit("p1")),
                   JString("name", Lit("n")), JArray("scopes", <<Lit("read")>>)>>,
                 <<JString("description", Lit("e")), JString("name", Lit("m")),
                   JArray("scopes", <<>>)>> >>)

OtherBodies ==
    {BearerBody,
     JsonObject(<<>>),
     JsonObject(<<JNull("error")>>),
     JsonArray(<<>>),
     AssociationsBody,
     JsonArray(<< <<JString("id", Lit("p1"))>> >>)}

Bodies == ErrorBodies \cup OtherBodies

JsonResponses == [kind : {"json"}, status : Statuses, json : Bodies]

(* `.send().await?` failed, or `.json::<Value>().await?` could not read the
   body as JSON *)
FailedResponses ==
    {[kind |-> "send_error", status |-> 0, json |-> JsonObject(<<>>)]}
    \cup [kind : {"not_json"}, status : Statuses, json : {JsonObject(<<>>)}]

Has(members, k, kinds) ==
    \E i \in 1..Len(members) : members[i].key = k /\ members[i].kind \in kinds

Get(members, k) ==
    members[CHOOSE i \in 1..Len(members) : members[i].key = k]

GetOpt(members, k, kind) ==
    IF Has(members, k, {kind}) THEN Some(Get(members, k).val[1]) ELSE None

(* serde_json::from_value::<OAuth2Error> *)
OAuth2Error_from_value(json) ==
    IF /\ json.kind = "object"
       /\ Has(json.members, "error", {"string"})
       /\ ~Has(json.members, "error_description", {"bool", "array", "object"})
    THEN Some([error |-> Get(json.members, "error").val[1],
               error_description |-> GetOpt(json.members, "error_description", "string")])
    ELSE None

(* serde_json::from_value::<Bearer> *)
Bearer_from_value(json) ==
    IF json.kind = "object" /\ Has(json.members, "access_token", {"string"})
    THEN Some([access_token |-> Get(json.members, "access_token").val[1]])
    ELSE None

association_decodes(item) ==
    /\ Has(item, "name", {"string"})
    /\ Has(item, "description", {"string"})
    /\ Has(item, "scopes", {"array"})

decode_association(item) ==
    [id |-> GetOpt(item, "id", "string"),
     name |-> Get(item, "name").val[1],
     description |-> Get(item, "description").val[1],
     scopes |-> Get(item, "scopes").val]

(* serde_json::from_value::<Vec<Uma2PermissionAssociation>> *)
Associations_from_value(json) ==
    IF /\ json.kind = "array"
       /\ \A i \in 1..Len(json.items) : association_decodes(json.items[i])
    THEN Some([i \in 1..Len(json.items) |-> decode_association(json.items[i])])
    ELSE None

(* Display of serde_json::Value: compact JSON text *)
RECURSIVE Join(_, _)
Join(ss, sep) ==
    IF ss = <<>> THEN ""
    ELSE ss[1] \o (IF Len(ss) > 1 THEN sep \o Join(Tail(ss), sep) ELSE "")

Quote(text) == "\"" \o Concat(text) \o "\""

DisplayValue(m) ==
    CASE m.kind = "string" -> Quote(m.val[1])
      [] m.kind = "null" -> "null"
      [] m.kind = "bool" -> Concat(m.val[1])
      [] OTHER -> "[" \o Join([i \in 1..Len(m.val) |-> Quote(m.val[i])], ",") \o "]"

DisplayObject(members) ==
    "{" \o Join([i \in 1..Len(members) |->
                    "\"" \o members[i].key \o "\":" \o DisplayValue(members[i])], ",")
        \o "}"

Display(json) ==
    IF json.kind = "object" THEN DisplayObject(json.members)
    ELSE "[" \o Join([i \in 1..Len(json.items) |-> DisplayObject(json.items[i])], ",")
             \o "]"

(* ---------------------------------------------------------------------- *)
(* The orchestrators after `.json::<Value>().await?`                       *)
(* ---------------------------------------------------------------------- *)
ClientError_from_OAuth2Error(e) == Err("OAuth2", e)

ClientError_from_json_error == Err("Json", <<>>)

ClientError_from_reqwest_error == Err("Reqwest", <<>>)

rpt_result(json) ==
    LET error == OAuth2Error_from_value(json) IN
    IF is_some(error) THEN ClientError_from_OAuth2Error(unwrap(error))
    ELSE LET new_token == Bearer_from_value(json) IN
         IF is_none(new_token) THEN ClientError_from_json_error
         ELSE Ok("String", unwrap(new_token).access_token)

ticket_result(json) ==
    LET error == OAuth2Error_from_value(json) IN
    IF is_some(error) THEN ClientError_from_OAuth2Error(unwrap(error)) ELSE Unit

associate_result(json) ==
    LET error == OAuth2Error_from_value(json) IN
    IF is_some(error) THEN ClientError_from_OAuth2Error(unwrap(error)) ELSE Unit

update_result(json) ==
    LET error == OAuth2Error_from_value(json) IN
    IF is_some(error) THEN ClientError_from_OAuth2Error(unwrap(error)) ELSE Unit

(* variant: the body is not looked at *)
delete_result_ignores_body(json) == Unit

delete_result(json) ==
    LET error == OAuth2Error_from_value(json) IN
    IF is_some(error) THEN ClientError_from_OAuth2Error(unwrap(error)) ELSE Unit

(* variant: a body that does not decode yields an empty list *)
search_result_lenient(json) ==
    LET error == OAuth2Error_from_value(json) IN
    IF is_some(error) THEN ClientError_from_OAuth2Error(unwrap(error))
    ELSE LET resource == Associations_from_value(json) IN
         IF is_none(resource) THEN Ok("Vec", <<>>)
         ELSE Ok("Vec", unwrap(resource))

search_result(json) ==
    LET error == OAuth2Error_from_value(json) IN
    IF is_some(error) THEN ClientError_from_OAuth2Error(unwrap(error))
    ELSE LET resource == Associations_from_value(json) IN
         IF is_none(resource) THEN ClientError_from_json_error
         ELSE Ok("Vec", unwrap(resource))

grant_result(json) ==
    LET error == OAuth2Error_from_value(json) IN
    IF is_some(error) THEN ClientError_from_OAuth2Error(unwrap(error))
    ELSE Ok("String", Display(json))

after_await(op, json) ==
    CASE op = "obtain_requesting_party_token" -> rpt_result(json)
      [] op = "create_uma2_permission_ticket" -> ticket_result(json)
      [] op = "associate_uma2_resource_with_a_permission" -> associate_result(json)
      [] op = "update_uma2_resource_permission" -> update_result(json)
      [] op = "delete_uma2_resource_permission" -> delete_result(json)
      [] op = "search_for_uma2_resource_permission" -> search_result(json)
      [] op = "grant_permission_to_user" -> grant_result(json)

(* the transport delivers a JSON body and the call runs to its return *)
Complete(c) ==
    /\ calls[c].pc = "awaiting"
    /\ \E resp \in JsonResponses :
          calls' = [calls EXCEPT
                      ![c] = Returned(calls[c].op, resp, after_await(calls[c].op, resp.json))]
    /\ UNCHANGED <<provider, sent>>

(* variant: a failed send is tried once more before the error is returned *)
TransportFails_retry(c) ==
    /\ calls[c].pc = "awaiting"
    /\ IF sent[c] < 2
       THEN /\ sent' = [sent EXCEPT ![c] = @ + 1]
            /\ UNCHANGED <<provider, calls>>
       ELSE /\ \E resp \in FailedResponses :
                  calls' = [calls EXCEPT
                              ![c] = Returned(calls[c].op, resp,
                                              ClientError_from_reqwest_error)]
            /\ UNCHANGED <<provider, sent>>

(* `?` on the send or on reading the body returns the transport error *)
TransportFails(c) ==
    /\ calls[c].pc = "awaiting"
    /\ \E resp \in FailedResponses :
          calls' = [calls EXCEPT
                      ![c] = Returned(calls[c].op, resp, ClientError_from_reqwest_error)]
    /\ UNCHANGED <<provider, sent>>

(* ---------------------------------------------------------------------- *)
(* Specification: one client, one call                                     *)
(* ---------------------------------------------------------------------- *)
Calls == {"call"}

Init ==
    /\ provider \in Providers
    /\ calls = [c \in Calls |-> Idle]
    /\ sent = [c \in Calls |-> 0]

Next ==
    \/ \E c \in DOMAIN calls : obtain_requesting_party_token(c)
    \/ \E c \in DOMAIN calls : create_uma2_permission_ticket(c)
    \/ \E c \in DOMAIN calls : associate_uma2_resource_with_a_permission(c)
    \/ \E c \in DOMAIN calls : update_uma2_resource_permission(c)
    \/ \E c \in DOMAIN calls : delete_uma2_resource_permission(c)
    \/ \E c \in DOMAIN calls : search_for_uma2_resource_permission(c)
    \/ \E c \in DOMAIN calls : grant_permission_to_user(c)
    \/ \E c \in DOMAIN calls : Complete(c)
    \/ \E c \in DOMAIN calls : TransportFails(c)

Spec == Init /\ [][Next]_vars

(* ---------------------------------------------------------------------- *)
(* Specification with fairness: one call, arguments from the small sets    *)
(* ---------------------------------------------------------------------- *)
NextFew ==
    \/ \E c \in DOMAIN calls : obtain_requesting_party_token_few(c)
    \/ \E c \in DOMAIN calls : create_uma2_permission_ticket_few(c)
    \/ \E c \in DOMAIN calls : associate_uma2_resource_with_a_permission_few(c)
    \/ \E c \in DOMAIN calls : update_uma2_resource_permission_few(c)
    \/ \E c \in DOMAIN calls : delete_uma2_resource_permission_few(c)
    \/ \E c \in DOMAIN calls : search_for_uma2_resource_permission_few(c)
    \/ \E c \in DOMAIN calls : grant_permission_to_user_few(c)
    \/ \E c \in DOMAIN calls : Complete(c)
    \/ \E c \in DOMAIN calls : TransportFails(c)

(* The transport is an asynchronous collaborator that resolves every
   request it was handed, with a body or with a failure: the suspended call
   is then polled to its return. *)
LiveSpec ==
    /\ Init
    /\ [][NextFew]_vars
    /\ \A c \in Calls : WF_vars(Complete(c) \/ TransportFails(c))

(* ---------------------------------------------------------------------- *)
(* Specification of two calls on one client, interleaved at their awaits   *)
(* ---------------------------------------------------------------------- *)
ConcCalls == {"c1", "c2"}

InitConc ==
    /\ provider \in Providers
    /\ calls = [c \in ConcCalls |-> Idle]
    /\ sent = [c \in ConcCalls |-> 0]

ConcSpec == InitConc /\ [][NextFew]_vars

(* ---------------------------------------------------------------------- *)
(* Vocabulary of the properties                                            *)
(* ---------------------------------------------------------------------- *)
CallIds == DOMAIN calls

Started(c) == calls[c].pc # "idle"

InFlight(c) == calls[c].pc = "awaiting"

Finished(c) == calls[c].pc = "done"

ArgsOf(c) == unwrap(calls[c].args)

ReqOf(c) == unwrap(calls[c].req)

ResultIs(c, tag, kind) ==
    /\ Finished(c)
    /\ is_some(calls[c].result)
    /\ unwrap(calls[c].result).tag = tag
    /\ unwrap(calls[c].result).kind = kind

(* the call ended with the Uma2Error e before any request was built or sent *)
RejectedWith(c, e) ==
    /\ ResultIs(c, "Err", e)
    /\ is_none(calls[c].req)
    /\ is_none(calls[c].resp)
    /\ sent[c] = 0

IsRpt(c) == calls[c].op = "obtain_requesting_party_token"

PermissionOps == {"create_uma2_permission_ticket", "grant_permission_to_user"}

PolicyOps ==
    {"associate_uma2_resource_with_a_permission", "update_uma2_resource_permission",
     "delete_uma2_resource_permission", "search_for_uma2_resource_permission"}

(* ---------------------------------------------------------------------- *)
(* C1: on a provider whose uma2_discovered() is false, every call of every *)
(* orchestrator, whatever its arguments and whatever endpoints are         *)
(* populated, ends with NoUma2Discovered and sends no request; for the RPT *)
(* exchange this also holds when permission = Some([]) and audience = None.*)
(* ---------------------------------------------------------------------- *)
C1_DiscoveryFirst ==
    ~provider.discovered =>
        \A c \in CallIds : Started(c) => RejectedWith(c, "NoUma2Discovered")

C1_Witness ==
    \E c \in CallIds :
        /\ ~provider.discovered
        /\ is_some(provider.permission_uri)
        /\ is_some(provider.uma_policy_uri)
        /\ IsRpt(c)
        /\ Finished(c)
        /\ ArgsOf(c).permission = Some(<<>>)
        /\ ArgsOf(c).audience = None

(* ---------------------------------------------------------------------- *)
(* C2: on a discovered provider, a call whose endpoint is absent ends with *)
(* the matching missing-endpoint error and sends no request:               *)
(* NoPermissionsEndpoint for create-ticket and grant-to-user,              *)
(* NoPolicyAssociationEndpoint for associate, update, delete and search,   *)
(* whether or not the other endpoint is present.                           *)
(* ---------------------------------------------------------------------- *)
C2_MissingEndpoint ==
    provider.discovered =>
        \A c \in CallIds :
            /\ (Started(c) /\ calls[c].op \in PermissionOps
                  /\ is_none(provider.permission_uri))
                 => RejectedWith(c, "NoPermissionsEndpoint")
            /\ (Started(c) /\ calls[c].op \in PolicyOps
                  /\ is_none(provider.uma_policy_uri))
                 => RejectedWith(c, "NoPolicyAssociationEndpoint")

C2_Witness ==
    \E c \in CallIds :
        /\ provider.discovered
        /\ is_none(provider.uma_policy_uri)
        /\ is_some(provider.permission_uri)
        /\ calls[c].op = "search_for_uma2_resource_permission"
        /\ Finished(c)

C4_AudienceMandatoryWithPermission ==
    \A c \in CallIds :
        (Started(c) /\ IsRpt(c) /\ is_some(calls[c].args)
           /\ is_some(ArgsOf(c).permission) /\ is_none(ArgsOf(c).audience))
        => /\ Finished(c)
           /\ unwrap(calls[c].result).tag = "Err"
           /\ is_none(calls[c].req)
           /\ sent[c] = 0

(* ---------------------------------------------------------------------- *)
(* C5: the form body of the RPT exchange holds no pair for an optional     *)
(* parameter that is unset and exactly one pair for one that is set,       *)
(* except permission: a sequence of N permissions gives exactly N          *)
(* `permission` pairs, one per element, in input order; booleans are       *)
(* written "true" / "false".                                               *)
(* ---------------------------------------------------------------------- *)
ValuesOf(pairs, k) ==
    LET sel == SelectSeq(pairs, LAMBDA p : p.key = k)
    IN  [i \in 1..Len(sel) |-> sel[i].value]

OnePairIfSet(pairs, k, o) ==
    ValuesOf(pairs, k) = IF is_some(o) THEN <<FormEncode(unwrap(o))>> ELSE <<>>

BoolPairIfSet(pairs, k, o) ==
    ValuesOf(pairs, k) =
        IF o = None THEN <<>> ELSE IF o = Some(TRUE) THEN <<"true">> ELSE <<"false">>

RptKeys ==
    {"grant_type", "ticket", "claim_token", "claim_token_format", "rpt",
     "permission", "audience", "response_include_resource_name",
     "response_permissions_limit", "submit_request"}

C5_FormBody ==
    \A c \in CallIds :
        (InFlight(c) /\ IsRpt(c)) =>
            LET a == ArgsOf(c)
                b == ReqOf(c).body.form
            IN  /\ ReqOf(c).body.kind = "form"
                /\ \A i \in 1..Len(b) : b[i].key \in RptKeys
                /\ OnePairIfSet(b, "ticket", a.ticket)
                /\ OnePairIfSet(b, "claim_token", a.claim_token)
                /\ Len(ValuesOf(b, "claim_token_format"))
                     = IF is_some(a.claim_token_format) THEN 1 ELSE 0
                /\ OnePairIfSet(b, "rpt", a.rpt)
                /\ OnePairIfSet(b, "audience", a.audience)
                /\ ValuesOf(b, "permission") =
                     IF is_some(a.permission)
                     THEN [i \in 1..Len(unwrap(a.permission)) |->
                              FormEncode(unwrap(a.permission)[i])]
                     ELSE <<>>
                /\ BoolPairIfSet(b, "response_include_resource_name",
                                 a.response_include_resource_name)
                /\ BoolPairIfSet(b, "submit_request", a.submit_request)
                /\ Len(ValuesOf(b, "response_permissions_limit"))
                     = IF is_some(a.response_permissions_limit) THEN 1 ELSE 0
                /\ a.response_permissions_limit = Some(10)
                     => ValuesOf(b, "response_permissions_limit") = <<"10">>

C5_Witness ==
    \E c \in CallIds :
        /\ InFlight(c)
        /\ IsRpt(c)
        /\ is_some(ArgsOf(c).permission)
        /\ Len(unwrap(ArgsOf(c).permission)) = 2
        /\ unwrap(ArgsOf(c).permission)[1] # unwrap(ArgsOf(c).permission)[2]
        /\ ArgsOf(c).ticket = None
        /\ ArgsOf(c).response_include_resource_name = Some(FALSE)
        /\ ArgsOf(c).submit_request = Some(TRUE)
        /\ Len(ValuesOf(ReqOf(c).body.form, "permission")) = 2

(* ---------------------------------------------------------------------- *)
(* C6: whenever the transport returns a JSON body of the OAuth2 error      *)
(* shape, the call returns the upstream OAuth2 error with the body's error *)
(* code and description and never Ok, whichever orchestrator made the      *)
(* call and whatever the HTTP status was.                                  *)
(* ---------------------------------------------------------------------- *)
RespOf(c) == unwrap(calls[c].resp)

GotJson(c) == Finished(c) /\ is_some(calls[c].resp) /\ RespOf(c).kind = "json"

C6_UpstreamError ==
    \A c \in CallIds :
        (GotJson(c) /\ RespOf(c).json \in ErrorBodies) =>
            /\ ResultIs(c, "Err", "OAuth2")
            /\ unwrap(calls[c].result).val.error
                 = Get(RespOf(c).json.members, "error").val[1]
            /\ RespOf(c).json = InvalidGrantBody =>
                 unwrap(calls[c].result).val
                   = [error |-> Lit("invalid_grant"), error_description |-> Some(Lit("x"))]

C6_Witness ==
    \E c \in CallIds :
        /\ GotJson(c)
        /\ RespOf(c).json = InvalidGrantBody
        /\ RespOf(c).status = 200
        /\ calls[c].op = "delete_uma2_resource_permission"
        /\ ResultIs(c, "Err", "OAuth2")

(* ---------------------------------------------------------------------- *)
(* C7: for a body that is not of the OAuth2 error shape the outcome comes  *)
(* from decoding that body: the RPT exchange returns the access_token of   *)
(* the Bearer and search the ordered list of associations, or a decode     *)
(* error (neither Ok nor the upstream error) when the body does not        *)
(* decode; create-ticket, associate, update and delete return unit for     *)
(* every such body; grant-to-user returns the body printed as JSON text.   *)
(* ---------------------------------------------------------------------- *)
UnitOps ==
    {"create_uma2_permission_ticket", "associate_uma2_resource_with_a_permission",
     "update_uma2_resource_permission", "delete_uma2_resource_permission"}

C7_SuccessDecode ==
    \A c \in CallIds :
        (GotJson(c) /\ RespOf(c).json \in OtherBodies) =>
            LET json == RespOf(c).json
                res == unwrap(calls[c].result)
            IN  /\ calls[c].op \in UnitOps => ResultIs(c, "Ok", "unit")
                /\ IsRpt(c) =>
                     IF json = BearerBody
                     THEN ResultIs(c, "Ok", "String") /\ res.val = Lit("rpt1")
                     ELSE ResultIs(c, "Err", "Json")
                /\ calls[c].op = "search_for_uma2_resource_permission" =>
                     IF json = AssociationsBody
                     THEN /\ ResultIs(c, "Ok", "Vec")
                          /\ [i \in 1..Len(res.val) |-> res.val[i].name]
                               = <<Lit("n"), Lit("m")>>
                          /\ res.val[1].id = Some(Lit("p1"))
                          /\ res.val[2].id = None
                     ELSE IF json = JsonArray(<<>>)
                     THEN ResultIs(c, "Ok", "Vec") /\ res.val = <<>>
                     ELSE ResultIs(c, "Err", "Json")
                /\ calls[c].op = "grant_permission_to_user" =>
                     /\ ResultIs(c, "Ok", "String")
                     /\ json = JsonObject(<<>>) => res.val = "{}"
                     /\ json = BearerBody =>
                          res.val = "{\"access_token\":\"rpt1\",\"token_type\":\"Bearer\"}"

C7_Witness ==
    \E c \in CallIds :
        /\ GotJson(c)
        /\ calls[c].op = "search_for_uma2_resource_permission"
        /\ RespOf(c).json = BearerBody
        /\ ResultIs(c, "Err", "Json")

(* ---------------------------------------------------------------------- *)
(* C8: a request that reaches the transport has the verb and URL of its    *)
(* operation: create-ticket POST to the permission endpoint; grant-to-user *)
(* POST to the permission endpoint plus the segment `ticket`; RPT exchange *)
(* POST to the token endpoint; associate POST to the policy endpoint plus  *)
(* the resource id as one segment; update PUT and delete DELETE to the     *)
(* policy endpoint plus the permission id as one segment; search GET to    *)
(* the policy endpoint with no added segment.                              *)
(* ---------------------------------------------------------------------- *)
AsOneSegment(id) == IF id = Lit("r1") THEN "r1" ELSE "a%2Fb"

Targets(url, endpoint, added) ==
    /\ is_some(endpoint)
    /\ url.base = unwrap(endpoint).base
    /\ url.cannot_be_a_base = unwrap(endpoint).cannot_be_a_base
    /\ url.segments = unwrap(endpoint).segments \o added

Candidates(a) ==
    <<[key |-> "resource", present |-> is_some(a.resource),
       value |-> IF is_some(a.resource) THEN FormEncode(unwrap(a.resource)) ELSE ""],
      [key |-> "name", present |-> is_some(a.name),
       value |-> IF is_some(a.name) THEN FormEncode(unwrap(a.name)) ELSE ""],
      [key |-> "scope", present |-> is_some(a.scope),
       value |-> IF is_some(a.scope) THEN FormEncode(unwrap(a.scope)) ELSE ""],
      [key |-> "first", present |-> is_some(a.offset),
       value |-> IF is_some(a.offset) THEN FormatU32(unwrap(a.offset)) ELSE ""],
      [key |-> "max", present |-> is_some(a.count),
       value |-> IF is_some(a.count) THEN FormatU32(unwrap(a.count)) ELSE ""]>>

PresentPairs(a) ==
    LET sel == SelectSeq(Candidates(a), LAMBDA x : x.present)
    IN  [i \in 1..Len(sel) |-> Pair(sel[i].key, sel[i].value)]

IsSearch(c) == calls[c].op = "search_for_uma2_resource_permission"

C9_SearchQuery ==
    \A c \in CallIds :
        (InFlight(c) /\ IsSearch(c)) =>
            LET a == ArgsOf(c)
                q == ReqOf(c).url.query
                q0 == unwrap(provider.uma_policy_uri).query
            IN  /\ q = q0 \o PresentPairs(a)
                /\ (q0 = <<>> /\ a.resource = None /\ a.name = None /\ a.scope = None
                      /\ a.offset = Some(10) /\ a.count = Some(5))
                     => finish(q) = "first=10&max=5"
                /\ (a.resource = None /\ a.name = None /\ a.scope = None
                      /\ a.offset = None /\ a.count = None)
                     => q = q0

C9_Witness ==
    \E c \in CallIds :
        /\ InFlight(c)
        /\ IsSearch(c)
        /\ ArgsOf(c).resource = None
        /\ ArgsOf(c).name = None
        /\ ArgsOf(c).scope = None
        /\ ArgsOf(c).offset = Some(10)
        /\ ArgsOf(c).count = Some(5)
        /\ finish(ReqOf(c).url.query) = "first=10&max=5"

(* ---------------------------------------------------------------------- *)
(* C10: in every JSON request body (create-ticket, grant-to-user,          *)
(* associate, update) an optional field that is unset is left out of the   *)
(* object and never written as null; grant-to-user with scope_name = None  *)
(* sends no `scopeName` key, and always sends `granted: true` with         *)
(* resource and requester.                                                 *)
(* ---------------------------------------------------------------------- *)
C10_NoNullMembers ==
    \A c \in CallIds :
        (InFlight(c) /\ ReqOf(c).body.kind = "json") =>
            LET m == ReqOf(c).body.json IN
            /\ NullKeys(m) = {}
            /\ calls[c].op = "grant_permission_to_user" =>
                 /\ {"resource", "requester", "granted"} \subseteq Keys(m)
                 /\ Get(m, "granted") = JBool("granted", TRUE)
                 /\ ArgsOf(c).scope_name = None => "scopeName" \notin Keys(m)

(* ---------------------------------------------------------------------- *)
(* C11: every request of create-ticket, grant-to-user, associate, update,  *)
(* delete and search carries `Authorization: Bearer <token>` with the      *)
(* caller's token; the request of the RPT exchange carries `Basic <token>` *)
(* exactly when the caller selected Basic and `Bearer <token>` exactly     *)
(* when the caller selected Bearer; no other scheme is produced.           *)
(* ---------------------------------------------------------------------- *)
HeaderValues(headers, n) ==
    LET sel == SelectSeq(headers, LAMBDA h : h.name = n)
    IN  [i \in 1..Len(sel) |-> sel[i].value]

CallerToken(c) ==
    IF calls[c].op = "create_uma2_permission_ticket"
    THEN ArgsOf(c).pat_token ELSE ArgsOf(c).token

C11_Authorization ==
    \A c \in CallIds :
        InFlight(c) =>
            LET auth == HeaderValues(ReqOf(c).headers, "authorization") IN
            /\ Len(auth) = 1
            /\ auth[1] \in {"Bearer pat", "Bearer tok2", "Basic pat", "Basic tok2"}
            /\ ~IsRpt(c) => auth[1] = "Bearer " \o CallerToken(c)
            /\ IsRpt(c) =>
                 /\ (auth[1] = "Basic " \o CallerToken(c))
                      <=> (ArgsOf(c).auth_method = "Basic")
                 /\ (auth[1] = "Bearer " \o CallerToken(c))
                      <=> (ArgsOf(c).auth_method = "Bearer")

C11_Witness ==
    \E c \in CallIds :
        /\ InFlight(c)
        /\ IsRpt(c)
        /\ ArgsOf(c).auth_method = "Basic"
        /\ ArgsOf(c).token = "tok2"
        /\ HeaderValues(ReqOf(c).headers, "authorization") = <<"Basic tok2">>

(* ---------------------------------------------------------------------- *)
(* C12: on a discovered provider whose needed endpoint is present but      *)
(* cannot take path segments, grant-to-user ends with                      *)
(* PermissionEndpointMalformed and associate, update and delete end with   *)
(* PolicyAssociationEndpointMalformed, with no request sent.  A malformed  *)
(* error is only ever returned on a discovered provider with the endpoint  *)
(* present (discovery, then missing endpoint, then malformed);             *)
(* create-ticket and search never return one.                              *)
(* ---------------------------------------------------------------------- *)
SegmentOps ==
    {"grant_permission_to_user", "associate_uma2_resource_with_a_permission",
     "update_uma2_resource_permission", "delete_uma2_resource_permission"}

EndpointOf(op) ==
    IF op \in PermissionOps THEN provider.permission_uri ELSE provider.uma_policy_uri

MalformedOf(op) ==
    IF op \in PermissionOps THEN "PermissionEndpointMalformed"
    ELSE "PolicyAssociationEndpointMalformed"

Opaque(endpoint) == is_some(endpoint) /\ unwrap(endpoint).cannot_be_a_base

IsMalformedError(c) ==
    \/ ResultIs(c, "Err", "PermissionEndpointMalformed")
    \/ ResultIs(c, "Err", "PolicyAssociationEndpointMalformed")

C12_MalformedEndpoint ==
    \A c \in CallIds :
        Started(c) =>
            /\ (provider.discovered /\ calls[c].op \in SegmentOps
                  /\ Opaque(EndpointOf(calls[c].op)))
                 => RejectedWith(c, MalformedOf(calls[c].op))
            /\ IsMalformedError(c) =>
                 /\ provider.discovered
                 /\ calls[c].op \in SegmentOps
                 /\ Opaque(EndpointOf(calls[c].op))
                 /\ RejectedWith(c, MalformedOf(calls[c].op))
            /\ (provider.discovered /\ ~IsRpt(c) /\ calls[c].op \notin SegmentOps
                  /\ Opaque(EndpointOf(calls[c].op)) /\ is_some(calls[c].args))
                 => InFlight(c) /\ sent[c] = 1

C12_Witness ==
    \E c \in CallIds :
        /\ provider.discovered
        /\ Opaque(provider.permission_uri)
        /\ Opaque(provider.uma_policy_uri)
        /\ calls[c].op = "update_uma2_resource_permission"
        /\ RejectedWith(c, "PolicyAssociationEndpointMalformed")

(* ---------------------------------------------------------------------- *)
(* C13: every invocation sends at most one request and ends in exactly one *)
(* outcome, Ok or Err, which is final.  A precondition or configuration    *)
(* error ends the call with no request sent; a transport failure (on send  *)
(* or on reading the body) ends it at once with the transport error, with  *)
(* no retry and no second request.                                         *)
(* ---------------------------------------------------------------------- *)
Uma2Errors ==
    {"NoUma2Discovered", "NoPermissionsEndpoint", "PermissionEndpointMalformed",
     "NoPolicyAssociationEndpoint", "PolicyAssociationEndpointMalformed",
     "AudienceFieldRequired"}

C13_OneOutcome(c) ==
    /\ sent[c] \in {0, 1}
    /\ ~Started(c) => sent[c] = 0
    /\ InFlight(c) => sent[c] = 1 /\ is_none(calls[c].result)
    /\ Finished(c) =>
         /\ is_some(calls[c].result)
         /\ unwrap(calls[c].result).tag \in {"Ok", "Err"}
         /\ (unwrap(calls[c].result).kind \in Uma2Errors)
              <=> (sent[c] = 0 /\ is_none(calls[c].resp))
         /\ (is_some(calls[c].resp) /\ RespOf(c).kind \in {"send_error", "not_json"})
              => ResultIs(c, "Err", "Reqwest") /\ sent[c] = 1

C13_Final(c) ==
    /\ Finished(c) => calls'[c] = calls[c] /\ sent'[c] = sent[c]
    /\ InFlight(c) => sent'[c] = sent[c] /\ (Finished(c)' \/ calls'[c] = calls[c])

C13_SingleRequestSingleOutcome ==
    /\ [](\A c \in Calls : C13_OneOutcome(c))
    /\ [][\A c \in Calls : C13_Final(c)]_vars
    /\ \A c \in Calls : Started(c) ~> Finished(c)

C13_Witness ==
    \E c \in CallIds :
        /\ Finished(c)
        /\ is_some(calls[c].resp)
        /\ RespOf(c).kind = "send_error"
        /\ ResultIs(c, "Err", "Reqwest")
        /\ sent[c] = 1

(* ---------------------------------------------------------------------- *)
(* C14: under every interleaving of two calls on one client, no call       *)
(* modifies the endpoint registry, every step touches the record of one    *)
(* call only, and the request a call sends and the outcome it returns      *)
(* depend only on its own operation, arguments and transport response:     *)
(* they are the same whatever the other call is doing.                     *)
(* ---------------------------------------------------------------------- *)
C14_OwnStepOnly ==
    /\ provider' = provider
    /\ \E c \in ConcCalls :
          \A d \in ConcCalls \ {c} : calls'[d] = calls[d] /\ sent'[d] = sent[d]

C14_SameAsAlone ==
    \A c \in ConcCalls : \A d \in ConcCalls \ {c} :
        /\ (calls[c].op = calls[d].op /\ is_some(calls[c].args)
              /\ is_some(calls[d].args) /\ ArgsOf(c) = ArgsOf(d))
             => /\ calls[c].pc = calls[d].pc
                /\ calls[c].req = calls[d].req
                /\ calls[c].result = calls[d].result
                /\ sent[c] = sent[d]
        /\ (calls[c].op = calls[d].op /\ is_some(calls[c].resp)
              /\ is_some(calls[d].resp) /\ RespOf(c) = RespOf(d))
             => calls[c].result = calls[d].result
        /\ (InFlight(c) /\ IsRpt(c)) =>
             /\ ReqOf(c).url = provider.token_uri
             /\ HeaderValues(ReqOf(c).headers, "authorization")
                  = <<"Bearer " \o ArgsOf(c).token>>
             /\ Len(ValuesOf(ReqOf(c).body.form, "permission"))
                  = IF is_some(ArgsOf(c).permission)
                    THEN Len(unwrap(ArgsOf(c).permission)) ELSE 0

C14_NoInterference ==
    /\ [][C14_OwnStepOnly]_vars
    /\ []C14_SameAsAlone

C14_Witness ==
    \E c \in ConcCalls : \E d \in ConcCalls \ {c} :
        /\ InFlight(c)
        /\ IsRpt(c)
        /\ ArgsOf(c).token = "pat"
        /\ HeaderValues(ReqOf(c).headers, "authorization") = <<"Bearer pat">>
        /\ GotJson(d)
        /\ calls[d].op = "grant_permission_to_user"
        /\ ResultIs(d, "Ok", "String")

====
